---- MODULE Spec2Model ----
(***************************************************************************)
(* Model of the knowledge-retrieval agent of the customer-support          *)
(* pipeline (src/agents/knowledge_retrieval.py): the article corpus, the   *)
(* flat L2 vector index, the neighbour search, the LLM judgment call and   *)
(* the positional fusion of both.                                          *)
(*                                                                         *)
(* Strings are sequences of tokens.  Words are positive integers, the      *)
(* blank is Space.  The sentence encoder is modelled as a deterministic    *)
(* map from a text to a one-dimensional integer vector.                    *)
(*                                                                         *)
(* Spec runs the methods one call at a time, as the pipeline does.         *)
(* SpecThreads runs load_knowledge_base and the neighbour search           *)
(* statement by statement in two threads.  SpecScore applies the          *)
(* relevance transform to pairs of floating-point distances.               *)
(* SpecPipeline runs process_ticket (src/main.py) stage by stage, with    *)
(* the mock status data and the escalation rule of the synthesis.          *)
(***************************************************************************)
EXTENDS Integers, Sequences, FiniteSets, TLC

\* ------------------------------------------------------------------ bounds
NumArticles == 3
MaxTopK == 4
MaxReplyArticles == 4
MaxThreadCorpus == 1
MantissaBits == 4
MaxErrorCodes == 2

\* ------------------------------------------------------- program constants
DefaultTopK == 5
JudgeLimit == 3
Space == 0
FLT_MAX == 1000000

\* ------------------------------------------------------------- sequences
Min(a, b) == IF a <= b THEN a ELSE b

Take(s, n) == SubSeq(s, 1, Min(n, Len(s)))

Drop(s, n) == SubSeq(s, Min(n, Len(s)) + 1, Len(s))

RECURSIVE SumSeq(_)
SumSeq(s) == IF s = <<>> THEN 0 ELSE Head(s) + SumSeq(Tail(s))

\* ' '.join(words)
RECURSIVE JoinSpace(_)
JoinSpace(words) ==
    IF words = <<>> THEN <<>>
    ELSE IF Len(words) = 1 THEN <<words[1]>>
    ELSE <<words[1], Space>> \o JoinSpace(Tail(words))

\* list[idx] of Python: a negative idx counts from the end of the list
PyIndex(list, idx) == IF idx < 0 THEN list[Len(list) + idx + 1] ELSE list[idx + 1]

\* ---------------------------------------------------------------- articles
Article(a) == [article_id |-> a, title |-> <<a>>, content |-> <<a>>]

ArticleIds == 1..NumArticles

\* the article lists a caller can load: unique article_ids, any order
Corpora ==
    UNION {{[i \in 1..n |-> Article(f[i])] :
                f \in {g \in [1..n -> ArticleIds] :
                          \A i, j \in 1..n : i # j => g[i] # g[j]}} :
           n \in 0..NumArticles}

\* ---------------------------------------------------------------- encoder
\* SentenceTransformer.encode of one text
Encode(text) == SumSeq(text)

\* f"{article.title} {article.content}"
ArticleText(article) == article.title \o <<Space>> \o article.content

EncodeArticles(arts) == [i \in 1..Len(arts) |-> Encode(ArticleText(arts[i]))]

\* ------------------------------------------------------------------ index
NoIndex == [built |-> FALSE, vectors |-> <<>>]

\* faiss.IndexFlatL2(dimension) followed by index.add(embeddings)
IndexFlatL2(vectors) == [built |-> TRUE, vectors |-> vectors]

\* squared Euclidean distance
L2(x, y) == (x - y) * (x - y)

\* the orders in which a flat index may report its n vectors: ascending
\* distance, vectors at equal distance in an order the library chooses
NeighbourOrders(vectors, q) ==
    LET n == Len(vectors)
    IN  {p \in [1..n -> 0..(n - 1)] :
            /\ \A i, j \in 1..n : i # j => p[i] # p[j]
            /\ \A i, j \in 1..n :
                  i < j => L2(vectors[p[i] + 1], q) <= L2(vectors[p[j] + 1], q)}

\* index.search(query, k): always k entries, the ones the index could not
\* find reported as position -1 at the largest float distance
IndexSearch(vectors, q, k) ==
    LET n == Len(vectors)
    IN  {[i \in 1..k |->
            IF i <= n THEN [idx |-> p[i], dist |-> L2(vectors[p[i] + 1], q)]
                      ELSE [idx |-> -1, dist |-> FLT_MAX]] :
         p \in NeighbourOrders(vectors, q)}

\* 1 - dist in place of 1 / (1 + dist)
RelevanceScoreLinear(dist) == [num |-> 1 - dist, den |-> 1]

\* 1 / (1 + dist), kept as a fraction
RelevanceScore(dist) == [num |-> 1, den |-> 1 + dist]

\* list[idx] raises IndexError
IndexError(list, idx) == idx >= Len(list) \/ idx < 0 - Len(list)

\* the loop of _search_similar_articles raises: a hit passes the test
\* idx < len(self.articles) and is out of range all the same
CollectRaises(hits, arts) ==
    \E i \in 1..Len(hits) : hits[i].idx < Len(arts) /\ IndexError(arts, hits[i].idx)

\* the loop of _search_similar_articles over zip(indices[0], distances[0])
RECURSIVE CollectResults(_, _)
CollectResults(hits, arts) ==
    IF hits = <<>> THEN <<>>
    ELSE LET h == Head(hits)
         IN  (IF h.idx < Len(arts)
                 THEN <<[article |-> PyIndex(arts, h.idx),
                         score |-> RelevanceScore(h.dist)]>>
                 ELSE <<>>)
             \o CollectResults(Tail(hits), arts)

\* _search_similar_articles(query, k): the lists it can return
SearchSimilarArticles(idx, arts, query, k) ==
    IF ~idx.built \/ arts = <<>>
        THEN {<<>>}
        ELSE {CollectResults(hits, arts) :
                 hits \in IndexSearch(idx.vectors, Encode(query), k)}

\* ---------------------------------------------------------------- tickets
\* the ticket-analysis records handed to retrieve_knowledge
Tickets ==
    [key_issues : {<<1>>, <<2, 1>>},
     customer_intent : {<<1>>},
     error_codes : {<<>>, <<3>>},
     category : {"technical"}]

\* search_query with the error codes appended whether there are any or not
SearchQueryAlwaysCodes(ticket) ==
    JoinSpace(ticket.key_issues) \o <<Space>> \o ticket.customer_intent
        \o <<Space>> \o JoinSpace(ticket.error_codes)

\* search_query of retrieve_knowledge
SearchQuery(ticket) ==
    LET base == JoinSpace(ticket.key_issues) \o <<Space>> \o ticket.customer_intent
    IN  IF ticket.error_codes # <<>>
            THEN base \o <<Space>> \o JoinSpace(ticket.error_codes)
            ELSE base

\* search_params: None, {}, a dict without 'top_k', a dict with 'top_k'
SearchParams ==
    {[kind |-> "None", top_k |-> 0], [kind |-> "empty", top_k |-> 0],
     [kind |-> "other", top_k |-> 0]}
    \cup {[kind |-> "top_k", top_k |-> v] : v \in 1..MaxTopK}

\* k = 5 whatever search_params holds
TopKIgnored(search_params) == DefaultTopK

\* k = search_params.get('top_k', 5) if search_params else 5
TopK(search_params) ==
    IF search_params.kind = "top_k" THEN search_params.top_k ELSE DefaultTopK

\* ------------------------------------------------------------- LLM replies
\* an opaque string of the reply: its kind and a serial number
Str(s, n) == [s |-> s, n |-> n]

EmptyStr == Str("", 0)

FallbackText == Str("No relevant articles found. Consider escalating to human support.", 0)

\* one character of the reply text
Ch(c) == [c |-> c, v |-> 0]

\* a complete JSON document inside the reply text, by document number
Doc(d) == [c |-> "doc", v |-> d]

BT == Ch("backtick")
NL == Ch("newline")
SP == Ch(" ")
BS == Ch("backslash")

Letters == {Ch("j"), Ch("s"), Ch("o"), Ch("n")}

Whitespace == {NL, SP}

\* a JSON string where an entry of relevant_articles is expected
JsonString == [json_string |-> Str("text", 0)]

\* the entry of relevant_articles is a JSON object (a dict with get)
IsObject(entry) == "json_string" \notin DOMAIN entry

\* the value json.loads gives for document d: an object whose
\* relevant_articles array has d entries, or (d = -1) an array, (d = -2)
\* an object with none of the three keys, (d = -3) an object with nothing but one
\* entry that has neither summary nor solution_steps, (d = -4) an object
\* whose only entry is a string
DocValue(d) ==
    IF d = -1
        THEN [type |-> "array", obj |-> <<>>]
    ELSE IF d = -2
        THEN [type |-> "object", obj |-> [note |-> <<>>]]
    ELSE IF d = -3
        THEN [type |-> "object",
              obj |-> [relevant_articles |-> <<[note |-> Str("note", 0)]>>]]
    ELSE IF d = -4
        THEN [type |-> "object",
              obj |-> [relevant_articles |-> <<JsonString>>,
                       recommended_solutions |-> <<Str("solution", d)>>,
                       related_issues |-> <<Str("issue", d)>>]]
        ELSE [type |-> "object",
              obj |-> [relevant_articles |->
                           [i \in 1..d |-> [summary |-> Str("summary", i),
                                            solution_steps |-> <<Str("step", i)>>]],
                       recommended_solutions |-> <<Str("solution", d)>>,
                       related_issues |-> <<Str("issue", d)>>]]

DocIds == (-4)..MaxReplyArticles

FenceTag == <<Ch("j"), Ch("s"), Ch("o"), Ch("n")>>

Fence == <<BT, BT, BT>>

\* the reply texts of the model
ReplyTexts ==
    {<<Doc(d)>> : d \in DocIds}
    \cup {<<NL, Doc(1), SP>>}
    \cup {Fence \o FenceTag \o <<NL, Doc(2), NL>> \o Fence}
    \cup {Fence \o <<NL, Doc(2), NL>> \o Fence}
    \cup {<<SP>> \o Fence \o FenceTag \o <<NL, Doc(1), NL>> \o Fence \o <<NL>>}
    \cup {Fence \o FenceTag \o <<BS, Ch("n"), Doc(2)>> \o Fence}
    \cup {Fence \o FenceTag \o <<NL, Ch("x"), NL>> \o Fence}
    \cup {<<Ch("x"), SP>> \o Fence \o <<NL, Doc(1), NL>> \o Fence}
    \cup {<<Ch("x")>>, <<>>}

\* what client.messages.create can end in: a response or a raised error
NoLLMCall ==
    [kind |-> "none", stop_reason |-> "", has_content |-> FALSE,
     content |-> <<>>, cls |-> "", msg |-> {}]

Response(stop_reason, has_content, content) ==
    [kind |-> "response", stop_reason |-> stop_reason,
     has_content |-> has_content, content |-> content, cls |-> "", msg |-> {}]

TextBlock(text) == [has_text |-> TRUE, text |-> text]

ToolUseBlock == [has_text |-> FALSE, text |-> <<>>]

APIError(cls, msg) ==
    [kind |-> "error", stop_reason |-> "", has_content |-> FALSE,
     content |-> <<>>, cls |-> cls, msg |-> msg]

LLMOutcomes ==
    {Response("end_turn", TRUE, <<TextBlock(t)>>) : t \in ReplyTexts}
    \cup {Response("refusal", TRUE, <<TextBlock(<<Doc(1)>>)>>),
          Response("end_turn", FALSE, <<>>),
          Response("end_turn", TRUE, <<>>),
          Response("end_turn", TRUE, <<ToolUseBlock>>)}
    \cup {APIError(c, {}) :
             c \in {"RateLimitError", "AuthenticationError", "APIConnectionError"}}
    \cup {APIError("NotFoundError", m) : m \in SUBSET {"model", "not_found_error"}}
    \cup {APIError("BadRequestError", m) : m \in SUBSET {"credit balance is too low"}}

\* ---------------------------------------------------------------- parsing
\* str.strip()
RECURSIVE LStrip(_)
LStrip(t) == IF t # <<>> /\ Head(t) \in Whitespace THEN LStrip(Tail(t)) ELSE t

RECURSIVE RStrip(_)
RStrip(t) ==
    IF t # <<>> /\ t[Len(t)] \in Whitespace THEN RStrip(SubSeq(t, 1, Len(t) - 1)) ELSE t

Strip(t) == RStrip(LStrip(t))

\* json.loads(text): one document, blanks allowed around it
JsonLoads(t) ==
    LET s == Strip(t)
    IN  IF Len(s) = 1 /\ s[1].c = "doc"
            THEN [ok |-> TRUE, doc |-> s[1].v]
            ELSE [ok |-> FALSE, doc |-> 0]

StartsWith(t, prefix) == Len(t) >= Len(prefix) /\ SubSeq(t, 1, Len(prefix)) = prefix

EndsWith(t, suffix) ==
    Len(t) >= Len(suffix) /\ SubSeq(t, Len(t) - Len(suffix) + 1, Len(t)) = suffix

\* the length of the longest run of letters at the start of t
RECURSIVE LetterRun(_)
LetterRun(t) == IF t # <<>> /\ Head(t) \in Letters THEN 1 + LetterRun(Tail(t)) ELSE 0

\* the first re.sub of the reparse: three backticks, letters, then (the
\* pattern being a raw string) an escaped backslash and an optional letter n
StripOpeningFence(t) ==
    IF ~StartsWith(t, Fence) THEN t
    ELSE LET rest == Drop(t, 3)
             after == Drop(rest, LetterRun(rest))
         IN  IF after # <<>> /\ Head(after) = BS
                 THEN (IF Len(after) >= 2 /\ after[2] = Ch("n")
                          THEN Drop(after, 2) ELSE Drop(after, 1))
                 ELSE t

\* the second re.sub: three backticks at the end of the text, where the end
\* anchor also matches before a final newline
StripClosingFence(t) ==
    IF EndsWith(t, Fence) THEN SubSeq(t, 1, Len(t) - 3)
    ELSE IF EndsWith(t, Fence \o <<NL>>) THEN SubSeq(t, 1, Len(t) - 4) \o <<NL>>
    ELSE t

\* the cleaned text of the second parse attempt
Cleaned(raw) == Strip(StripClosingFence(StripOpeningFence(Strip(raw))))

\* ParseReply cleaning and parsing again after every failed first attempt
ParseReplyAlwaysCleans(raw) ==
    LET first == JsonLoads(raw)
    IN  IF first.ok THEN [ok |-> TRUE, doc |-> first.doc, attempts |-> 1]
        ELSE LET second == JsonLoads(Cleaned(raw))
             IN  [ok |-> second.ok, doc |-> second.doc, attempts |-> 2]

\* the two-attempt parse of the reply text: json.loads on the raw text,
\* then, if that fails and the text starts with a fence, on the cleaned one
ParseReply(raw) ==
    LET first == JsonLoads(raw)
    IN  IF first.ok THEN [ok |-> TRUE, doc |-> first.doc, attempts |-> 1]
        ELSE IF StartsWith(Strip(raw), Fence)
            THEN LET second == JsonLoads(Cleaned(raw))
                 IN  [ok |-> second.ok, doc |-> second.doc, attempts |-> 2]
            ELSE [ok |-> FALSE, doc |-> 0, attempts |-> 1]

\* ----------------------------------------------------------------- results
KnowledgeRetrievalResult(relevant_articles, recommended_solutions, related_issues) ==
    [kind |-> "KnowledgeRetrievalResult",
     relevant_articles |-> relevant_articles,
     recommended_solutions |-> recommended_solutions,
     related_issues |-> related_issues]

\* return None
ReturnNone ==
    [kind |-> "None", relevant_articles |-> <<>>,
     recommended_solutions |-> <<>>, related_issues |-> <<>>]

\* the exception leaves retrieve_knowledge
Raised ==
    [kind |-> "raised", relevant_articles |-> <<>>,
     recommended_solutions |-> <<>>, related_issues |-> <<>>]

\* no call of retrieve_knowledge has returned yet
NoResult ==
    [kind |-> "init", relevant_articles |-> <<>>,
     recommended_solutions |-> <<>>, related_issues |-> <<>>]

RetrievalResult(article, score, summary, solution_steps) ==
    [article_id |-> article.article_id, title |-> article.title,
     relevance_score |-> score, summary |-> summary,
     solution_steps |-> solution_steps]

\* FallbackResult with the recommendation left out
FallbackResultNoAdvice == KnowledgeRetrievalResult(<<>>, <<>>, <<>>)

\* the result returned when the search gave no candidate
FallbackResult == KnowledgeRetrievalResult(<<>>, <<FallbackText>>, <<>>)

\* dict.get(key, default)
DictGet(d, key, default) == IF key \in DOMAIN d THEN d[key] ELSE default

\* JudgedCandidates without the slice
JudgedCandidatesAll(similar_articles) == similar_articles

\* similar_articles[:3], the candidates of the prompt and of the fusion loop
JudgedCandidates(similar_articles) == Take(similar_articles, JudgeLimit)

\* FuseLoop padding the candidates the reply has no entry for
RECURSIVE FuseLoopPadded(_, _, _)
FuseLoopPadded(i, judged, reply_articles) ==
    IF i > Len(judged) THEN <<>>
    ELSE (IF i - 1 < Len(reply_articles)
             THEN <<RetrievalResult(judged[i].article, judged[i].score,
                                    DictGet(reply_articles[i], "summary", EmptyStr),
                                    DictGet(reply_articles[i], "solution_steps", <<>>))>>
             ELSE <<RetrievalResult(judged[i].article, judged[i].score, EmptyStr, <<>>)>>)
         \o FuseLoopPadded(i + 1, judged, reply_articles)

\* the fusion loop, from its i-th iteration (1-based) on
RECURSIVE FuseLoop(_, _, _)
FuseLoop(i, judged, reply_articles) ==
    IF i > Len(judged) THEN <<>>
    ELSE (IF i - 1 < Len(reply_articles)
             THEN <<RetrievalResult(judged[i].article, judged[i].score,
                                    DictGet(reply_articles[i], "summary", EmptyStr),
                                    DictGet(reply_articles[i], "solution_steps", <<>>))>>
             ELSE <<>>)
         \o FuseLoop(i + 1, judged, reply_articles)

\* the fusion loop raises: a reply entry it pairs with a candidate is no
\* object and has no get
FuseRaises(judged, reply_articles) ==
    \E i \in 1..Min(Len(judged), Len(reply_articles)) : ~IsObject(reply_articles[i])

\* Fuse taking a reply without one of the three keys for a failure
FuseRequiresKeys(similar_articles, value) ==
    IF value.type # "object" THEN ReturnNone
    ELSE IF {"relevant_articles", "recommended_solutions", "related_issues"}
                \ DOMAIN value.obj # {}
        THEN ReturnNone
    ELSE IF FuseRaises(JudgedCandidates(similar_articles), value.obj.relevant_articles)
        THEN ReturnNone
    ELSE KnowledgeRetrievalResult(
             FuseLoop(1, JudgedCandidates(similar_articles), value.obj.relevant_articles),
             value.obj.recommended_solutions,
             value.obj.related_issues)

\* the result built from the parsed reply; a reply that is no object has no
\* get, and that error like the one of the fusion loop ends in the handler
\* of Exception
Fuse(similar_articles, value) ==
    IF value.type # "object" THEN ReturnNone
    ELSE IF FuseRaises(JudgedCandidates(similar_articles),
                       DictGet(value.obj, "relevant_articles", <<>>))
        THEN ReturnNone
    ELSE KnowledgeRetrievalResult(
             FuseLoop(1, JudgedCandidates(similar_articles),
                      DictGet(value.obj, "relevant_articles", <<>>)),
             DictGet(value.obj, "recommended_solutions", <<>>),
             DictGet(value.obj, "related_issues", <<>>))

\* HandleError without the two re-raising branches
HandleErrorSwallowAll(err) == ReturnNone

\* the except clauses of retrieve_knowledge
HandleError(err) ==
    IF err.cls = "NotFoundError"
        THEN (IF "model" \in err.msg /\ "not_found_error" \in err.msg
                 THEN ReturnNone ELSE Raised)
    ELSE IF err.cls = "BadRequestError"
        THEN (IF "credit balance is too low" \in err.msg THEN ReturnNone ELSE Raised)
    ELSE ReturnNone

\* the response has a first content block with a text
HasText(response) ==
    /\ response.has_content
    /\ response.content # <<>>
    /\ response.content[1].has_text

\* the number of json.loads calls retrieve_knowledge makes for the outcome
ParseAttempts(llm) ==
    IF llm.kind = "response" /\ llm.stop_reason # "refusal" /\ HasText(llm)
        THEN ParseReply(llm.content[1].text).attempts
        ELSE 0

\* Judge returning the bare ranking when the reply cannot be parsed
JudgeRankingOnParseFailure(llm, similar_articles) ==
    IF llm.kind = "error" THEN HandleError(llm)
    ELSE IF llm.stop_reason = "refusal" THEN ReturnNone
    ELSE IF ~HasText(llm) THEN ReturnNone
    ELSE LET parsed == ParseReply(llm.content[1].text)
         IN  IF parsed.ok THEN Fuse(similar_articles, DocValue(parsed.doc))
             ELSE Fuse(similar_articles, [type |-> "object", obj |-> [related_issues |-> <<>>]])

\* the try block of retrieve_knowledge, given how the request ended
Judge(llm, similar_articles) ==
    IF llm.kind = "error" THEN HandleError(llm)
    ELSE IF llm.stop_reason = "refusal" THEN ReturnNone
    ELSE IF ~HasText(llm) THEN ReturnNone
    ELSE LET parsed == ParseReply(llm.content[1].text)
         IN  IF parsed.ok THEN Fuse(similar_articles, DocValue(parsed.doc))
             ELSE ReturnNone

\* ------------------------------------------------- floating-point scores
\* The distances of the index and the scores computed from them are
\* binary floating-point numbers m * 2^e with a mantissa of MantissaBits
\* bits (24 in the float32 of faiss and numpy); every operation rounds its
\* exact result to the nearest such number, ties to the even mantissa.

RECURSIVE Pow2(_)
Pow2(n) == IF n <= 0 THEN 1 ELSE 2 * Pow2(n - 1)

FloatZero == [m |-> 0, e |-> 0]

\* the exact value of a float, as a fraction
FloatToRat(x) ==
    IF x.e >= 0 THEN [num |-> x.m * Pow2(x.e), den |-> 1]
                ELSE [num |-> x.m, den |-> Pow2(0 - x.e)]

\* the float nearest to n / (d * 2^e) when that lies in [2^(p-1), 2^p]
RoundMantissa(n, d, e) ==
    LET q == n \div d
        r == n % d
        m == IF 2 * r > d \/ (2 * r = d /\ q % 2 = 1) THEN q + 1 ELSE q
    IN  IF m = Pow2(MantissaBits)
            THEN [m |-> Pow2(MantissaBits - 1), e |-> e + 1]
            ELSE [m |-> m, e |-> e]

\* the float nearest to the positive fraction (n / d) * 2^e
RECURSIVE RoundToFloat(_, _, _)
RoundToFloat(n, d, e) ==
    IF n >= Pow2(MantissaBits) * d THEN RoundToFloat(n, 2 * d, e + 1)
    ELSE IF n < Pow2(MantissaBits - 1) * d THEN RoundToFloat(2 * n, d, e - 1)
    ELSE RoundMantissa(n, d, e)

\* 1 + dist
FloatAddOne(x) ==
    LET r == FloatToRat(x) IN RoundToFloat(r.den + r.num, r.den, 0)

\* 1 / x
FloatInverse(x) ==
    LET r == FloatToRat(x) IN RoundToFloat(r.den, r.num, 0)

\* x < y
FloatLess(x, y) ==
    LET a == FloatToRat(x)
        b == FloatToRat(y)
    IN  a.num * b.den < b.num * a.den

\* relevance_score = 1 / (1 + dist) without the division
FloatScoreOfSum(dist) == FloatAddOne(dist)

\* relevance_score = 1 / (1 + dist)
FloatScore(dist) == FloatInverse(FloatAddOne(dist))

\* the distances scored: zero and the floats of every mantissa from
\* 2^(-p-1) up to 8, p the number of mantissa bits
FloatDistances ==
    {FloatZero}
    \cup [m : Pow2(MantissaBits - 1)..(Pow2(MantissaBits) - 1),
          e : (0 - 2 * MantissaBits)..(3 - MantissaBits)]

\* ---------------------------------------------------------------- pipeline
\* The stages of CustomerSupportPipeline.process_ticket (src/main.py) and
\* what they hand to each other.

\* the error codes a ticket analysis can list
ErrorCodes == {"E401", "E402", "E500"}

RECURSIVE SeqsUpTo(_, _)
SeqsUpTo(S, n) ==
    IF n = 0 THEN {<<>>}
    ELSE SeqsUpTo(S, n - 1)
         \cup {Append(s, x) : s \in {t \in SeqsUpTo(S, n - 1) : Len(t) = n - 1}, x \in S}

ErrorCodeLists == SeqsUpTo(ErrorCodes, MaxErrorCodes)

\* x in list
Contains(list, x) == \E i \in 1..Len(list) : list[i] = x

\* no value yet
NoValue == [kind |-> "none"]

\* return None of a stage
StageNone == [kind |-> "None"]

\* a stage left by an exception
StageRaised == [kind |-> "raised"]

\* TicketAnalysis.to_dict(), the fields the later stages read
TicketAnalysis(priority, requires_human_escalation, error_codes) ==
    [kind |-> "TicketAnalysis", priority |-> priority,
     requires_human_escalation |-> requires_human_escalation,
     error_codes |-> error_codes]

\* analyze_ticket: a TicketAnalysis, or every failure (API error, reply
\* that is no JSON, missing key, unknown enum value) raised again as
\* Exception("Failed to analyze ticket: ...")
AnalyzeOutcomes ==
    {TicketAnalysis(p, e, c) :
        p \in {"medium", "critical"}, e \in BOOLEAN, c \in ErrorCodeLists}
    \cup {StageRaised}

\* retrieve_knowledge as process_ticket sees it: the fallback, a fused
\* result, a result with all lists empty, None, or an error
RetrieveOutcomes ==
    {FallbackResult,
     KnowledgeRetrievalResult(
         <<RetrievalResult(Article(1), RelevanceScore(0), Str("summary", 1),
                           <<Str("step", 1)>>)>>,
         <<Str("solution", 1)>>, <<Str("issue", 1)>>),
     KnowledgeRetrievalResult(<<>>, <<>>, <<>>),
     ReturnNone, Raised}

\* _mock_api_data(products, error_codes) with overall following the two
\* known codes only
MockApiDataKnownCodes(error_codes) ==
    [overall |-> IF Contains(error_codes, "E401") \/ Contains(error_codes, "E402")
                    THEN "degraded" ELSE "operational",
     services |-> [authentication |-> IF Contains(error_codes, "E401")
                                         THEN "degraded" ELSE "operational",
                   api |-> "operational",
                   database |-> "operational",
                   payment |-> IF Contains(error_codes, "E402")
                                  THEN "degraded" ELSE "operational"],
     incidents |-> IF Contains(error_codes, "E401") THEN <<"INC-789">> ELSE <<>>]

\* _mock_api_data(products, error_codes): status and incidents
MockApiData(error_codes) ==
    [overall |-> IF error_codes # <<>> THEN "degraded" ELSE "operational",
     services |-> [authentication |-> IF Contains(error_codes, "E401")
                                         THEN "degraded" ELSE "operational",
                   api |-> "operational",
                   database |-> "operational",
                   payment |-> IF Contains(error_codes, "E402")
                                  THEN "degraded" ELSE "operational"],
     incidents |-> IF Contains(error_codes, "E401") THEN <<"INC-789">> ELSE <<>>]

\* check_system_status as process_ticket sees it: a SystemStatusResult
\* made from the LLM reply, None, or a re-raised API error
StatusOutcomes ==
    {[kind |-> "SystemStatusResult", overall |-> o] : o \in {"operational", "degraded"}}
    \cup {StageNone, StageRaised}

\* the LLM request of synthesize_response: a reply object with
\* escalation_needed true, false or missing, a failure answered with None
\* (refusal, no text, no JSON, missing key, other errors), or a re-raised
\* API error
SynthesisReplies ==
    {[kind |-> "reply", escalation_needed |-> v] : v \in {"true", "false", "missing"}}
    \cup {StageNone, StageRaised}

\* escalation_needed taken from the LLM reply alone
EscalationNeededFromReply(ticket_analysis, reply) ==
    reply.escalation_needed = "true"

\* escalation_needed = requires_human_escalation or the reply's
\* escalation_needed (False when missing) or priority == 'critical'
EscalationNeeded(ticket_analysis, reply) ==
    \/ ticket_analysis.requires_human_escalation
    \/ reply.escalation_needed = "true"
    \/ ticket_analysis.priority = "critical"

\* synthesize_response(ticket, ticket_analysis, ...) for the LLM reply
SynthesizeResponse(ticket_analysis, reply) ==
    IF reply.kind = "reply"
        THEN [kind |-> "SynthesizedResponse",
              escalation_needed |-> EscalationNeeded(ticket_analysis, reply)]
        ELSE reply

\* no process_ticket call in progress
NoTicket ==
    [pc |-> "idle", use_mock_data |-> FALSE, evaluator |-> FALSE,
     invoked |-> <<>>, analysis |-> NoValue, knowledge |-> NoValue,
     api_data |-> NoValue, status |-> NoValue, synthesis_knowledge |-> NoValue,
     reply |-> NoValue, response |-> NoValue, returned |-> "none"]

\* the order of the stages in process_ticket
StageOrder == <<"analysis", "retrieval", "status", "synthesis", "evaluation">>

\* StageNext going on to the next stage after a None
StageNextIgnoresNone(outcome, next) ==
    IF outcome.kind = "raised" THEN [pc |-> "returned", returned |-> "raised"]
    ELSE [pc |-> next, returned |-> "none"]

\* where process_ticket goes after a stage: an exception leaves it, a None
\* makes it return None, any other value lets it go on
StageNext(outcome, next) ==
    IF outcome.kind = "raised" THEN [pc |-> "returned", returned |-> "raised"]
    ELSE IF outcome.kind = "None" THEN [pc |-> "returned", returned |-> "None"]
    ELSE [pc |-> next, returned |-> "none"]

\* ------------------------------------------------------------------- state
VARIABLES
    articles,        \* self.articles
    index,           \* self.index
    pc,              \* "ready": no call in progress; "returned": a call of
                     \* retrieve_knowledge has just returned to its caller
    call,            \* the arguments of that call and the way its LLM
                     \* request ended
    similar,         \* similar_articles of the call
    submitted,       \* the candidates in the prompt of its LLM request
    llm_requests,    \* the number of LLM requests it issued
    parse_attempts,  \* the number of json.loads calls it made
    result,          \* what it returned
    search_query,    \* its search_query
    query_embedding, \* what self.encoder.encode([query]) gave it
    last_load,       \* the list given to the last load_knowledge_base, and
                     \* how it relates to the list given to the one before
    scored,          \* two distances and their relevance scores
    pipeline,        \* the frame of a process_ticket call of the pipeline
    load_pc,         \* position of a thread inside load_knowledge_base
    load_embeddings, \* its local embeddings
    query_pc,        \* position of a thread inside _search_similar_articles
    hits,            \* its local (indices[0], distances[0])
    seen             \* the index it searched and the article list it read

vars == <<articles, index, pc, call, similar, submitted, llm_requests,
          parse_attempts, result, search_query, query_embedding, last_load,
          scored, pipeline, load_pc, load_embeddings, query_pc, hits, seen>>

threads == <<load_pc, load_embeddings, query_pc, hits, seen, scored, pipeline>>

frame == <<call, similar, submitted, llm_requests, parse_attempts, result,
           search_query, query_embedding>>

Pair(arts, idx) == [articles |-> arts, index |-> idx]

NoCall == [ticket |-> CHOOSE t \in Tickets : TRUE,
           search_params |-> [kind |-> "None", top_k |-> 0],
           llm |-> NoLLMCall]

\* the encoder was not called
NoEmbedding == [kind |-> "none", vector |-> 0]

\* query_embedding = self.encoder.encode([query])
QueryEmbedding(query) == [kind |-> "vector", vector |-> Encode(query)]

\* self.encoder.encode([query]) raised
EncodeFailed == [kind |-> "raised", vector |-> 0]

\* no load_knowledge_base call yet
NoLoad == [arts |-> <<>>, kind |-> "none"]

\* the call load_knowledge_base(arts) after the call recorded in last:
\* the first one, one given the same list again, or one given another
\* list; a load that raised is recorded as "failed"
LoadRecord(last, arts) ==
    [arts |-> arts,
     kind |-> IF last.kind = "none" THEN "first"
              ELSE IF last.arts = arts THEN "same" ELSE "other"]

\* no distance scored yet
NoScore == [done |-> FALSE, d1 |-> FloatZero, d2 |-> FloatZero,
            s1 |-> FloatZero, s2 |-> FloatZero]

\* KnowledgeRetrievalAgent.__init__
Init ==
    /\ articles = <<>>
    /\ index = NoIndex
    /\ pc = "ready"
    /\ call = NoCall
    /\ similar = <<>>
    /\ submitted = <<>>
    /\ llm_requests = 0
    /\ parse_attempts = 0
    /\ result = NoResult
    /\ search_query = <<>>
    /\ query_embedding = NoEmbedding
    /\ last_load = NoLoad
    /\ scored = NoScore
    /\ pipeline = NoTicket
    /\ load_pc = "idle"
    /\ load_embeddings = <<>>
    /\ query_pc = "idle"
    /\ hits = <<>>
    /\ seen = Pair(<<>>, NoIndex)

\* load_knowledge_base(arts) extending the stored list and the index it
\* holds instead of replacing them
LoadKnowledgeBaseExtend(arts) ==
    /\ pc = "ready"
    /\ articles' = articles \o arts
    /\ index' = IF arts = <<>> THEN index
                ELSE IndexFlatL2(index.vectors \o EncodeArticles(arts))
    /\ last_load' = LoadRecord(last_load, arts)
    /\ UNCHANGED <<pc, frame, threads>>

\* load_knowledge_base(arts) adding the embeddings to the index it holds
\* instead of building a new one
LoadKnowledgeBaseAppend(arts) ==
    /\ pc = "ready"
    /\ articles' = arts
    /\ index' = IF arts = <<>> THEN index
                ELSE IndexFlatL2(index.vectors \o EncodeArticles(arts))
    /\ last_load' = LoadRecord(last_load, arts)
    /\ UNCHANGED <<pc, frame, threads>>

\* load_knowledge_base(arts)
LoadKnowledgeBase(arts) ==
    /\ pc = "ready"
    /\ articles' = arts
    /\ index' = IF arts = <<>> THEN index
                ELSE IndexFlatL2(EncodeArticles(arts))
    /\ last_load' = LoadRecord(last_load, arts)
    /\ UNCHANGED <<pc, frame, threads>>

\* the article lists on whose texts the encoder is made to fail: the
\* lists of one article, which the method treats like any non-empty list
FailedLoadCorpora == {<<Article(a)>> : a \in ArticleIds}

\* load_knowledge_base(arts) when self.encoder.encode(article_texts)
\* raises: the list is stored by then, the index is not yet touched, and
\* the error leaves the method
LoadEmbeddingFails(arts) ==
    /\ pc = "ready"
    /\ arts # <<>>
    /\ articles' = arts
    /\ index' = index
    /\ last_load' = [arts |-> arts, kind |-> "failed"]
    /\ UNCHANGED <<pc, frame, threads>>

\* RetrieveFallback discarding the index it found of no use
RetrieveFallbackDropsIndex(ticket, search_params) ==
    /\ pc = "ready"
    /\ <<>> \in SearchSimilarArticles(index, articles, SearchQuery(ticket),
                                      TopK(search_params))
    /\ pc' = "returned"
    /\ call' = [ticket |-> ticket, search_params |-> search_params,
                llm |-> NoLLMCall]
    /\ search_query' = SearchQuery(ticket)
    /\ query_embedding' = NoEmbedding
    /\ similar' = <<>>
    /\ submitted' = <<>>
    /\ llm_requests' = 0
    /\ parse_attempts' = 0
    /\ result' = FallbackResult
    /\ index' = NoIndex
    /\ UNCHANGED <<articles, last_load, threads>>

\* retrieve_knowledge(ticket, search_params) when the search gives no
\* candidate: the fallback result, without an LLM request
RetrieveFallback(ticket, search_params) ==
    /\ pc = "ready"
    /\ <<>> \in SearchSimilarArticles(index, articles, SearchQuery(ticket),
                                      TopK(search_params))
    /\ pc' = "returned"
    /\ call' = [ticket |-> ticket, search_params |-> search_params,
                llm |-> NoLLMCall]
    /\ search_query' = SearchQuery(ticket)
    /\ query_embedding' = IF ~index.built \/ articles = <<>>
                              THEN NoEmbedding
                              ELSE QueryEmbedding(SearchQuery(ticket))
    /\ similar' = <<>>
    /\ submitted' = <<>>
    /\ llm_requests' = 0
    /\ parse_attempts' = 0
    /\ result' = FallbackResult
    /\ UNCHANGED <<articles, index, last_load, threads>>

\* RetrieveJudged sending the request a second time when it failed
RetrieveJudgedRetry(ticket, search_params, found, llm) ==
    /\ pc = "ready"
    /\ found # <<>>
    /\ pc' = "returned"
    /\ call' = [ticket |-> ticket, search_params |-> search_params, llm |-> llm]
    /\ search_query' = SearchQuery(ticket)
    /\ query_embedding' = QueryEmbedding(SearchQuery(ticket))
    /\ similar' = found
    /\ submitted' = JudgedCandidates(found)
    /\ llm_requests' = IF llm.kind = "error" THEN 2 ELSE 1
    /\ parse_attempts' = ParseAttempts(llm)
    /\ result' = Judge(llm, found)
    /\ UNCHANGED <<articles, index, last_load, threads>>

\* retrieve_knowledge(ticket, search_params) when the search gives the
\* candidates found and the LLM request ends in llm
RetrieveJudged(ticket, search_params, found, llm) ==
    /\ pc = "ready"
    /\ found # <<>>
    /\ pc' = "returned"
    /\ call' = [ticket |-> ticket, search_params |-> search_params, llm |-> llm]
    /\ search_query' = SearchQuery(ticket)
    /\ query_embedding' = QueryEmbedding(SearchQuery(ticket))
    /\ similar' = found
    /\ submitted' = JudgedCandidates(found)
    /\ llm_requests' = 1
    /\ parse_attempts' = ParseAttempts(llm)
    /\ result' = Judge(llm, found)
    /\ UNCHANGED <<articles, index, last_load, threads>>

\* RetrieveEmbeddingFails taking the failed embedding for an empty search
RetrieveEmbeddingFailsFallback(ticket, search_params) ==
    /\ pc = "ready"
    /\ index.built
    /\ articles # <<>>
    /\ pc' = "returned"
    /\ call' = [ticket |-> ticket, search_params |-> search_params,
                llm |-> NoLLMCall]
    /\ search_query' = SearchQuery(ticket)
    /\ query_embedding' = EncodeFailed
    /\ similar' = <<>>
    /\ submitted' = <<>>
    /\ llm_requests' = 0
    /\ parse_attempts' = 0
    /\ result' = FallbackResult
    /\ UNCHANGED <<articles, index, last_load, threads>>

\* retrieve_knowledge(ticket, search_params) when self.encoder.encode of
\* the query raises: the call is made only behind the guard of
\* _search_similar_articles, and neither that function nor the call of it
\* in retrieve_knowledge stands inside a try
RetrieveEmbeddingFails(ticket, search_params) ==
    /\ pc = "ready"
    /\ index.built
    /\ articles # <<>>
    /\ pc' = "returned"
    /\ call' = [ticket |-> ticket, search_params |-> search_params,
                llm |-> NoLLMCall]
    /\ search_query' = SearchQuery(ticket)
    /\ query_embedding' = EncodeFailed
    /\ similar' = <<>>
    /\ submitted' = <<>>
    /\ llm_requests' = 0
    /\ parse_attempts' = 0
    /\ result' = Raised
    /\ UNCHANGED <<articles, index, last_load, threads>>

\* the caller takes the result; the frame of the call is gone
ReturnToCaller ==
    /\ pc = "returned"
    /\ pc' = "ready"
    /\ call' = NoCall
    /\ search_query' = <<>>
    /\ query_embedding' = NoEmbedding
    /\ similar' = <<>>
    /\ submitted' = <<>>
    /\ llm_requests' = 0
    /\ parse_attempts' = 0
    /\ result' = NoResult
    /\ UNCHANGED <<articles, index, last_load, threads>>

Next ==
    \/ \E arts \in Corpora : LoadKnowledgeBase(arts)
    \/ \E arts \in FailedLoadCorpora : LoadEmbeddingFails(arts)
    \/ /\ pc = "ready"
       /\ \E t \in Tickets, sp \in SearchParams : RetrieveFallback(t, sp)
    \/ /\ pc = "ready"
       /\ \E t \in Tickets, sp \in SearchParams :
              \E found \in SearchSimilarArticles(index, articles, SearchQuery(t), TopK(sp)) :
                  \E llm \in LLMOutcomes : RetrieveJudged(t, sp, found, llm)
    \/ /\ pc = "ready"
       /\ \E t \in Tickets, sp \in SearchParams : RetrieveEmbeddingFails(t, sp)
    \/ ReturnToCaller

Spec == Init /\ [][Next]_vars

\* ------------------------------------------------ threads without a lock
\* One thread runs load_knowledge_base and one runs the search of
\* retrieve_knowledge, statement by statement; the agent has no lock.

sequential == <<pc, submitted, llm_requests, parse_attempts, result,
                search_query, query_embedding, last_load, scored, pipeline>>

\* the article lists loaded while a query runs
ThreadCorpora == {c \in Corpora : Len(c) <= MaxThreadCorpus}

\* self.articles = articles; if not articles: return
LoadStore(arts) ==
    /\ load_pc = "idle"
    /\ articles' = arts
    /\ load_pc' = IF arts = <<>> THEN "idle" ELSE "stored"
    /\ UNCHANGED <<index, load_embeddings, query_pc, hits, seen, call, similar,
                   sequential>>

\* embeddings = self.encoder.encode(article_texts)
LoadEncode ==
    /\ load_pc = "stored"
    /\ load_embeddings' = EncodeArticles(articles)
    /\ load_pc' = "encoded"
    /\ UNCHANGED <<articles, index, query_pc, hits, seen, call, similar,
                   sequential>>

\* self.index = faiss.IndexFlatL2(dimension)
LoadCreateIndex ==
    /\ load_pc = "encoded"
    /\ index' = IndexFlatL2(<<>>)
    /\ load_pc' = "created"
    /\ UNCHANGED <<articles, load_embeddings, query_pc, hits, seen, call,
                   similar, sequential>>

\* self.index.add(embeddings)
LoadAdd ==
    /\ load_pc = "created"
    /\ index' = IndexFlatL2(load_embeddings)
    /\ load_pc' = "idle"
    /\ load_embeddings' = <<>>
    /\ UNCHANGED <<articles, query_pc, hits, seen, call, similar, sequential>>

\* retrieve_knowledge up to the guard of _search_similar_articles
QueryCheck(ticket, search_params) ==
    /\ query_pc = "idle"
    /\ call' = [ticket |-> ticket, search_params |-> search_params,
                llm |-> NoLLMCall]
    /\ query_pc' = IF ~index.built \/ articles = <<>> THEN "empty" ELSE "checked"
    /\ UNCHANGED <<articles, index, load_pc, load_embeddings, hits, seen,
                   similar, sequential>>

\* distances, indices = self.index.search(query_embedding, k)
QuerySearch ==
    /\ query_pc = "checked"
    /\ hits' \in IndexSearch(index.vectors, Encode(SearchQuery(call.ticket)),
                             TopK(call.search_params))
    /\ seen' = Pair(<<>>, index)
    /\ query_pc' = "searched"
    /\ UNCHANGED <<articles, index, load_pc, load_embeddings, call, similar,
                   sequential>>

\* the loop over the hits, reading self.articles
QueryCollect ==
    /\ query_pc = "searched"
    /\ IF CollectRaises(hits, articles)
          THEN similar' = <<>> /\ query_pc' = "raised"
          ELSE similar' = CollectResults(hits, articles) /\ query_pc' = "done"
    /\ seen' = Pair(articles, seen.index)
    /\ UNCHANGED <<articles, index, load_pc, load_embeddings, hits, call,
                   sequential>>

\* _search_similar_articles returns or raises
QueryReturn ==
    /\ query_pc \in {"empty", "done", "raised"}
    /\ query_pc' = "idle"
    /\ call' = NoCall
    /\ hits' = <<>>
    /\ similar' = <<>>
    /\ seen' = Pair(<<>>, NoIndex)
    /\ UNCHANGED <<articles, index, load_pc, load_embeddings, sequential>>

NextThreads ==
    \/ \E arts \in ThreadCorpora : LoadStore(arts)
    \/ LoadEncode
    \/ LoadCreateIndex
    \/ LoadAdd
    \/ \E t \in Tickets, sp \in SearchParams : QueryCheck(t, sp)
    \/ QuerySearch
    \/ QueryCollect
    \/ QueryReturn

SpecThreads == Init /\ [][NextThreads]_vars

\* ------------------------------------------------ the relevance transform
\* the statement relevance_score = 1 / (1 + dist) of the search loop,
\* applied to two distances

ScoreDistances(d1, d2) ==
    /\ ~scored.done
    /\ scored' = [done |-> TRUE, d1 |-> d1, d2 |-> d2,
                  s1 |-> FloatScore(d1), s2 |-> FloatScore(d2)]
    /\ UNCHANGED <<articles, index, last_load, pc, frame, load_pc,
                   load_embeddings, query_pc, hits, seen, pipeline>>

NextScore == \E d1, d2 \in FloatDistances : ScoreDistances(d1, d2)

SpecScore == Init /\ [][NextScore]_vars

\* --------------------------------------------------------- process_ticket
\* CustomerSupportPipeline.process_ticket, one stage per step

others == <<articles, index, last_load, pc, frame, load_pc, load_embeddings,
            query_pc, hits, seen, scored>>

\* process_ticket is called on a pipeline configured with use_mock_data
\* and with or without an evaluator
ProcessTicket(use_mock_data, evaluator) ==
    /\ pipeline.pc = "idle"
    /\ pipeline' = [NoTicket EXCEPT !.pc = "analysis",
                                    !.use_mock_data = use_mock_data,
                                    !.evaluator = evaluator]
    /\ UNCHANGED others

\* Step 1: analysis = self.ticket_analyzer.analyze_ticket(...)
AnalyzeTicket(outcome) ==
    /\ pipeline.pc = "analysis"
    /\ LET next == StageNext(outcome, "retrieval")
       IN  pipeline' = [pipeline EXCEPT !.invoked = Append(@, "analysis"),
                                        !.analysis = outcome,
                                        !.pc = next.pc,
                                        !.returned = next.returned]
    /\ UNCHANGED others

\* RetrieveKnowledge taking a result without articles for a failure
RetrieveKnowledgeNeedsArticles(outcome) ==
    /\ pipeline.pc = "retrieval"
    /\ LET next == IF outcome.kind = "KnowledgeRetrievalResult"
                         /\ outcome.relevant_articles = <<>>
                      THEN [pc |-> "returned", returned |-> "None"]
                      ELSE StageNext(outcome, "status")
       IN  pipeline' = [pipeline EXCEPT !.invoked = Append(@, "retrieval"),
                                        !.knowledge = outcome,
                                        !.pc = next.pc,
                                        !.returned = next.returned]
    /\ UNCHANGED others

\* Step 2: knowledge_results = self.knowledge_retrieval.retrieve_knowledge(...)
RetrieveKnowledge(outcome) ==
    /\ pipeline.pc = "retrieval"
    /\ LET next == StageNext(outcome, "status")
       IN  pipeline' = [pipeline EXCEPT !.invoked = Append(@, "retrieval"),
                                        !.knowledge = outcome,
                                        !.pc = next.pc,
                                        !.returned = next.returned]
    /\ UNCHANGED others

\* Step 3: status_results = await self.system_status.check_system_status(
\* mentioned_products, error_codes), which builds the mock data when the
\* pipeline is configured with use_mock_data
CheckSystemStatus(outcome) ==
    /\ pipeline.pc = "status"
    /\ LET next == StageNext(outcome, "synthesis")
       IN  pipeline' = [pipeline EXCEPT !.invoked = Append(@, "status"),
                                        !.api_data =
                                            IF pipeline.use_mock_data
                                                THEN MockApiData(pipeline.analysis.error_codes)
                                                ELSE NoValue,
                                        !.status = outcome,
                                        !.pc = next.pc,
                                        !.returned = next.returned]
    /\ UNCHANGED others

\* Step 4: response = self.response_synthesis.synthesize_response(
\* ticket_text, analysis_dict, knowledge_dict, status_dict, profile)
Synthesize(reply) ==
    /\ pipeline.pc = "synthesis"
    /\ LET outcome == SynthesizeResponse(pipeline.analysis, reply)
           next == StageNext(outcome, "evaluation")
       IN  pipeline' = [pipeline EXCEPT !.invoked = Append(@, "synthesis"),
                                        !.synthesis_knowledge = pipeline.knowledge,
                                        !.reply = reply,
                                        !.response = outcome,
                                        !.pc = next.pc,
                                        !.returned = next.returned]
    /\ UNCHANGED others

\* the evaluation, when there is an evaluator, and the return of the
\* result dictionary
EvaluateAndReturn ==
    /\ pipeline.pc = "evaluation"
    /\ pipeline' = [pipeline EXCEPT !.invoked = IF pipeline.evaluator
                                                    THEN Append(@, "evaluation") ELSE @,
                                    !.pc = "returned",
                                    !.returned = "dict"]
    /\ UNCHANGED others

\* the caller has the outcome of process_ticket
TicketDone ==
    /\ pipeline.pc = "returned"
    /\ pipeline' = NoTicket
    /\ UNCHANGED others

NextPipeline ==
    \/ \E m, e \in BOOLEAN : ProcessTicket(m, e)
    \/ \E o \in AnalyzeOutcomes : AnalyzeTicket(o)
    \/ \E o \in RetrieveOutcomes : RetrieveKnowledge(o)
    \/ \E o \in StatusOutcomes : CheckSystemStatus(o)
    \/ \E r \in SynthesisReplies : Synthesize(r)
    \/ EvaluateAndReturn
    \/ TicketDone

SpecPipeline == Init /\ [][NextPipeline]_vars

\* ------------------------------------------------------------------ claims
\* k of the returned call, from its search_params
CallTopK == IF call.search_params.kind = "top_k" THEN call.search_params.top_k ELSE 5

\* the reply text of the returned call
CallText == call.llm.content[1].text

\* the request of the returned call ended in a response carrying a text
CallHasText ==
    /\ call.llm.kind = "response"
    /\ call.llm.stop_reason # "refusal"
    /\ call.llm.has_content
    /\ call.llm.content # <<>>
    /\ call.llm.content[1].has_text

\* C1: with no corpus held (never loaded, or the last load was given an
\* empty list, also after a non-empty load) retrieve_knowledge returns
\* exactly the fallback triple, as a result and not as a failure.
C1_FallbackOnNoCorpus ==
    (pc = "returned" /\ articles = <<>>) =>
        /\ result = [kind |-> "KnowledgeRetrievalResult",
                     relevant_articles |-> <<>>,
                     recommended_solutions |->
                         <<Str("No relevant articles found. Consider escalating to human support.", 0)>>,
                     related_issues |-> <<>>]
        /\ llm_requests = 0

\* a retrieval with an explicit top_k after load([]) that followed a
\* non-empty load
C1_Witness ==
    /\ pc = "returned"
    /\ articles = <<>>
    /\ index.built
    /\ call.search_params.kind = "top_k"
    /\ result.kind = "KnowledgeRetrievalResult"

\* C2: a successful retrieval over c <= 3 submitted candidates and a reply
\* with j judged articles has exactly min(c, j) relevant_articles, entry i
\* made of candidate i (id, title, score) and reply entry i (summary,
\* steps); no padding, surplus reply entries ignored.
C2_PositionalFusion ==
    (pc = "returned" /\ llm_requests = 1 /\ result.kind = "KnowledgeRetrievalResult") =>
        LET reply == DictGet(DocValue(ParseReply(CallText).doc).obj,
                             "relevant_articles", <<>>)
            c == Len(submitted)
            j == Len(reply)
            m == IF c <= j THEN c ELSE j
        IN  /\ c <= 3
            /\ Len(result.relevant_articles) = m
            /\ \A i \in 1..m :
                  result.relevant_articles[i] =
                      [article_id |-> submitted[i].article.article_id,
                       title |-> submitted[i].article.title,
                       relevance_score |-> submitted[i].score,
                       summary |-> DictGet(reply[i], "summary", EmptyStr),
                       solution_steps |-> DictGet(reply[i], "solution_steps", <<>>)]

\* three candidates of three different articles, a reply judging two
C2_Witness ==
    /\ pc = "returned"
    /\ result.kind = "KnowledgeRetrievalResult"
    /\ Len(submitted) = 3
    /\ Cardinality({submitted[i].article.article_id : i \in 1..3}) = 3
    /\ CallHasText
    /\ ParseReply(CallText).doc = 2
    /\ Len(DocValue(2).obj.relevant_articles) = 2
    /\ Len(result.relevant_articles) = 2

\* the ways of ending the LLM request that C3 lists
C3_ListedFailure ==
    \/ call.llm.kind = "response" /\ call.llm.stop_reason = "refusal"
    \/ /\ call.llm.kind = "response"
       /\ \/ ~call.llm.has_content
          \/ call.llm.content = <<>>
          \/ ~call.llm.content[1].has_text
    \/ CallHasText /\ ~JsonLoads(CallText).ok /\ ~JsonLoads(Cleaned(CallText)).ok
    \/ /\ call.llm.kind = "error"
       /\ \/ call.llm.cls \in {"RateLimitError", "AuthenticationError"}
          \/ /\ call.llm.cls = "BadRequestError"
             /\ "credit balance is too low" \in call.llm.msg

\* C3: a refusal, an empty or malformed response, a reply unparseable also
\* after the reparse, a rate-limit, authentication or low-balance error
\* make retrieve_knowledge return None, never a KnowledgeRetrievalResult.
C3_FailureGivesNone ==
    (pc = "returned" /\ llm_requests = 1 /\ C3_ListedFailure) =>
        /\ result.kind = "None"
        /\ result.relevant_articles = <<>>

\* candidates were found and the fenced reply stays unparseable
C3_Witness ==
    /\ pc = "returned"
    /\ llm_requests = 1
    /\ similar # <<>>
    /\ CallHasText
    /\ parse_attempts = 2
    /\ ~JsonLoads(Cleaned(CallText)).ok
    /\ result.kind = "None"

\* C4 as claimed: every error raised at the LLM boundary is returned as the
\* failure value and none leaves retrieve_knowledge as an exception.
C4_NoErrorEscapes ==
    (pc = "returned" /\ call.llm.kind = "error") => result.kind = "None"

\* the errors the except clauses raise again
C4_Reraised ==
    \/ /\ call.llm.cls = "NotFoundError"
       /\ ~("model" \in call.llm.msg /\ "not_found_error" \in call.llm.msg)
    \/ /\ call.llm.cls = "BadRequestError"
       /\ "credit balance is too low" \notin call.llm.msg

\* C4 amended: an error raised at the LLM boundary is returned as None,
\* except a NotFoundError whose message does not name both "model" and
\* "not_found_error" and a BadRequestError whose message is not about the
\* credit balance, which leave retrieve_knowledge as exceptions.
C4_ErrorsNoneOrReraised ==
    (pc = "returned" /\ call.llm.kind = "error") =>
        result.kind = IF C4_Reraised THEN "raised" ELSE "None"

\* a not-found error that is not about the model has left as an exception
C4_Witness ==
    /\ pc = "returned"
    /\ call.llm.kind = "error"
    /\ call.llm.cls = "NotFoundError"
    /\ "model" \notin call.llm.msg
    /\ result.kind = "raised"

\* C5: after any sequence of loads, position i of the index holds the
\* embedding of the i-th article of the stored article list.
C5_IndexAlignedWithArticles ==
    \A i \in 1..Len(index.vectors) :
        /\ i <= Len(articles)
        /\ index.vectors[i] = Encode(ArticleText(articles[i]))

\* C6: after a load has returned, the index holds as many vectors as there
\* are stored articles, also for load([]) after a non-empty load.
C6_IndexSizeIsCorpusSize == Len(index.vectors) = Len(articles)

\* C7: for n >= 1 articles and k >= 1 the neighbour search yields exactly
\* min(k, n) candidates, each a different article; nothing is produced for
\* neighbours the index did not find.
C7_SearchYieldsMinKN ==
    (pc = "returned" /\ Len(articles) >= 1) =>
        /\ Len(similar) = (IF CallTopK <= Len(articles) THEN CallTopK ELSE Len(articles))
        /\ \A i, j \in 1..Len(similar) :
              i # j => similar[i].article.article_id # similar[j].article.article_id

\* C8: a query running concurrently with a load observes the complete
\* previous (article list, index) pair or the complete new one: the index
\* it searched is the one built from the article list it read, never the
\* index of another list nor an index created but not yet filled.
C8_QuerySeesCompletePair ==
    (query_pc \in {"done", "raised"} /\ seen.articles # <<>>) =>
        seen.index = [built |-> TRUE,
                      vectors |-> [i \in 1..Len(seen.articles) |->
                                      Encode(ArticleText(seen.articles[i]))]]

\* C9: the candidates submitted for judgment are the first min(3, m) of the
\* m neighbours in rank order, at most min(top_k, 3) of them, and the same
\* candidates in the same order are the ones the fusion uses.
C9_JudgedAreTopThree ==
    (pc = "returned" /\ llm_requests = 1) =>
        LET m == Len(similar)
            c == IF m <= 3 THEN m ELSE 3
        IN  /\ submitted = SubSeq(similar, 1, c)
            /\ Len(submitted) <= (IF CallTopK <= 3 THEN CallTopK ELSE 3)
            /\ result.kind = "KnowledgeRetrievalResult" =>
                  /\ Len(result.relevant_articles) <= c
                  /\ \A i \in 1..Len(result.relevant_articles) :
                        /\ result.relevant_articles[i].article_id =
                               similar[i].article.article_id
                        /\ result.relevant_articles[i].relevance_score = similar[i].score

\* more than three neighbours, three of them judged and fused
C9_Witness ==
    /\ pc = "returned"
    /\ Len(similar) > 3
    /\ Len(submitted) = 3
    /\ result.kind = "KnowledgeRetrievalResult"
    /\ Len(result.relevant_articles) = 3

\* the reply text is a JSON object in a fenced code block: three backticks,
\* an optional language tag, a newline, the object, a newline, three
\* backticks
C10_FencedObject ==
    /\ CallHasText
    /\ \E d \in 0..MaxReplyArticles :
          \/ CallText = <<BT, BT, BT>> \o <<NL, Doc(d), NL>> \o <<BT, BT, BT>>
          \/ CallText = <<BT, BT, BT>> \o FenceTag \o <<NL, Doc(d), NL>> \o <<BT, BT, BT>>

\* C10: a valid JSON object wrapped in a fenced code block is parsed on the
\* second attempt and retrieve_knowledge returns the fused result.
C10_FencedReplyIsParsed ==
    (pc = "returned" /\ llm_requests = 1 /\ C10_FencedObject) =>
        /\ parse_attempts = 2
        /\ result.kind = "KnowledgeRetrievalResult"

\* C11: the embedder being a function of the text, a load_knowledge_base
\* given the list the previous load was given leaves every query with the
\* candidates, order and scores it had before: the index is built anew
\* from the list, one vector per article, and never appended to.
C11_ReloadIsIdempotent ==
    [][(pc = "ready" /\ pc' = "ready" /\ last_load.kind \notin {"none", "failed"}
            /\ last_load'.kind = "same")
        => /\ \A t \in Tickets, sp \in SearchParams :
                  SearchSimilarArticles(index', articles', SearchQuery(t), TopK(sp))
                      = SearchSimilarArticles(index, articles, SearchQuery(t), TopK(sp))
           /\ articles' # <<>> => Len(index'.vectors) = Len(articles')]_vars

\* a query answered with candidates after a non-empty list was loaded
\* twice in a row
C11_Witness ==
    /\ pc = "returned"
    /\ last_load.kind = "same"
    /\ last_load.arts # <<>>
    /\ similar # <<>>

\* C12: every article a retrieval reports, as a candidate of the search
\* or as an entry of relevant_articles, is an element of the list B given
\* to the last load_knowledge_base; no article of a corpus loaded before
\* is returned unless it is in B too.
C12_ResultsFromLastLoad ==
    pc = "returned" =>
        /\ \A i \in 1..Len(similar) :
               \E j \in 1..Len(last_load.arts) : similar[i].article = last_load.arts[j]
        /\ result.kind = "KnowledgeRetrievalResult" =>
               \A i \in 1..Len(result.relevant_articles) :
                   \E j \in 1..Len(last_load.arts) :
                       /\ result.relevant_articles[i].article_id = last_load.arts[j].article_id
                       /\ result.relevant_articles[i].title = last_load.arts[j].title

\* a fused result returned after a non-empty corpus took the place of
\* another corpus
C12_Witness ==
    /\ pc = "returned"
    /\ last_load.kind = "other"
    /\ result.kind = "KnowledgeRetrievalResult"
    /\ result.relevant_articles # <<>>
    /\ Len(last_load.arts) < NumArticles

C15_StrictlyDecreasing ==
    (scored.done /\ FloatLess(scored.d1, scored.d2)) =>
        FloatLess(scored.s2, scored.s1)

\* C15: the relevance transform, computed in floating point, is
\* non-increasing: for all distances 0 <= d1 < d2 the score of d1 is not
\* less than the score of d2, and the two can be equal.
C15_NonIncreasing ==
    (scored.done /\ FloatLess(scored.d1, scored.d2)) =>
        ~FloatLess(scored.s1, scored.s2)

\* two distances, the smaller one not zero, with the same score
C15_Witness ==
    /\ scored.done
    /\ FloatLess(FloatZero, scored.d1)
    /\ FloatLess(scored.d1, scored.d2)
    /\ scored.s1 = scored.s2

\* the fraction lies in [0, 1]
C16_InUnitInterval(score) == score.den > 0 /\ 0 <= score.num /\ score.num <= score.den

\* C16: every relevance_score of the candidates and of the returned
\* relevant_articles lies in [0, 1], also for the largest distance the
\* index reports, and a neighbour at distance 0 has score exactly 1.
C16_ScoresInUnitInterval ==
    pc = "returned" =>
        /\ \A i \in 1..Len(similar) :
               /\ C16_InUnitInterval(similar[i].score)
               /\ (i <= Len(index.vectors)
                      /\ index.vectors = EncodeArticles(articles)
                      /\ L2(Encode(ArticleText(similar[i].article)),
                            query_embedding.vector) = 0)
                     => similar[i].score.num = similar[i].score.den
        /\ result.kind = "KnowledgeRetrievalResult" =>
               \A i \in 1..Len(result.relevant_articles) :
                   C16_InUnitInterval(result.relevant_articles[i].relevance_score)

\* a fused result whose first article is at distance 0 and whose last is
\* a hit reported at the largest distance
C16_Witness ==
    /\ pc = "returned"
    /\ result.kind = "KnowledgeRetrievalResult"
    /\ Len(result.relevant_articles) = 3
    /\ result.relevant_articles[1].relevance_score = [num |-> 1, den |-> 1]
    /\ result.relevant_articles[3].relevance_score = [num |-> 1, den |-> 1 + FLT_MAX]

\* the length of n words joined by single spaces
C17_JoinedLen(n) == IF n = 0 THEN 0 ELSE 2 * n - 1

\* C17: the query string of retrieve_knowledge is, position by position,
\* the key_issues separated by single spaces, one space, the
\* customer_intent and, only when error_codes is non-empty, one space and
\* the error_codes separated by single spaces; with no error code the
\* string ends with the customer_intent.
C17_QueryString ==
    pc = "returned" =>
        LET q == search_query
            ki == call.ticket.key_issues
            ci == call.ticket.customer_intent
            ec == call.ticket.error_codes
            a == C17_JoinedLen(Len(ki))
            b == a + 1 + Len(ci)
        IN  /\ Len(q) = b + (IF ec # <<>> THEN 1 + C17_JoinedLen(Len(ec)) ELSE 0)
            /\ \A i \in 1..Len(ki) : q[2 * i - 1] = ki[i]
            /\ \A i \in 1..(Len(ki) - 1) : q[2 * i] = Space
            /\ q[a + 1] = Space
            /\ \A j \in 1..Len(ci) : q[a + 1 + j] = ci[j]
            /\ ec # <<>> =>
                   /\ q[b + 1] = Space
                   /\ \A i \in 1..Len(ec) : q[b + 2 * i] = ec[i]
                   /\ \A i \in 1..(Len(ec) - 1) : q[b + 2 * i + 1] = Space
            /\ ec = <<>> => q[Len(q)] = ci[Len(ci)]

\* the query of a ticket with two key issues and an error code
C17_Witness ==
    /\ pc = "returned"
    /\ Len(call.ticket.key_issues) = 2
    /\ call.ticket.error_codes # <<>>
    /\ search_query = <<2, Space, 1, Space, 1, Space, 3>>

\* C18: a call of retrieve_knowledge issues at most one LLM request; it
\* issues one exactly when the search, run before, gave at least one
\* candidate (none on the fallback path, none when the search raised),
\* with candidates of that search in the prompt, and a request that failed
\* is not sent again.
C18_AtMostOneRequest ==
    pc = "returned" =>
        /\ llm_requests \in {0, 1}
        /\ llm_requests = 1 <=> similar # <<>>
        /\ llm_requests = 1 =>
               /\ query_embedding.kind = "vector"
               /\ submitted # <<>>
               /\ \A i \in 1..Len(submitted) : submitted[i] = similar[i]
        /\ llm_requests = 0 <=> call.llm = NoLLMCall
        /\ call.llm.kind = "error" => llm_requests = 1

\* a call whose LLM request failed with a rate-limit error
C18_Witness ==
    /\ pc = "returned"
    /\ call.llm.kind = "error"
    /\ call.llm.cls = "RateLimitError"
    /\ llm_requests = 1
    /\ result = ReturnNone

\* C19: the reply text is given to json.loads at most twice: raw, and
\* once more after cleaning exactly when the raw parse fails and the
\* trimmed text starts with a fence.  A text failing the raw parse without
\* such a fence gives None after one attempt, a text failing both attempts
\* gives None, and a reply without text is not parsed at all.
C19_TwoAttemptParse ==
    pc = "returned" =>
        IF llm_requests = 1 /\ CallHasText
            THEN LET raw_ok == JsonLoads(CallText).ok
                     fenced == StartsWith(Strip(CallText), Fence)
                 IN  /\ parse_attempts \in {1, 2}
                     /\ parse_attempts = 2 <=> (~raw_ok /\ fenced)
                     /\ (~raw_ok /\ ~fenced) => result = ReturnNone
                     /\ (~raw_ok /\ fenced /\ ~JsonLoads(Cleaned(CallText)).ok)
                            => result = ReturnNone
            ELSE parse_attempts = 0

\* a reply of prose followed by a fenced object: one attempt, None
C19_Witness ==
    /\ pc = "returned"
    /\ llm_requests = 1
    /\ CallHasText
    /\ ~JsonLoads(CallText).ok
    /\ ~StartsWith(Strip(CallText), Fence)
    /\ \E i \in 1..Len(CallText) : CallText[i] = BT
    /\ parse_attempts = 1
    /\ result = ReturnNone

\* C20: when the encoder fails on the query text, retrieve_knowledge
\* leaves with that error: it returns neither the fallback triple nor a
\* fused result nor None, and it issues no LLM request.
C20_EmbeddingFailurePropagates ==
    (pc = "returned" /\ query_embedding.kind = "raised") =>
        /\ result = Raised
        /\ result.kind \notin {"KnowledgeRetrievalResult", "None"}
        /\ llm_requests = 0
        /\ call.llm = NoLLMCall
        /\ submitted = <<>>
        /\ parse_attempts = 0

\* a retrieval over a loaded corpus whose query embedding failed
C20_Witness ==
    /\ pc = "returned"
    /\ query_embedding = EncodeFailed
    /\ articles # <<>>
    /\ index.vectors = EncodeArticles(articles)
    /\ result.kind = "raised"

\* C21: when the encoder fails inside load_knowledge_base, the call
\* leaves the article list and the index exactly as they were before it.
C21_FailedLoadChangesNothing ==
    [][(pc = "ready" /\ pc' = "ready" /\ last_load'.kind = "failed")
        => (articles' = articles /\ index' = index)]_vars

\* C24: the search of retrieve_knowledge asks for k = 5 neighbours when
\* search_params is None, empty or without 'top_k', and for the value of
\* 'top_k' otherwise: a search over an index that belongs to the stored
\* list gives k candidates (the index pads its answer to k entries).
C24_DefaultTopK ==
    (pc = "returned" /\ query_embedding.kind = "vector"
       /\ index.vectors = EncodeArticles(articles)) =>
        LET k == IF call.search_params.kind \in {"None", "empty", "other"}
                    THEN 5 ELSE call.search_params.top_k
        IN  Len(similar) = k

\* a call with a search_params dict that has no 'top_k': five candidates
C24_Witness ==
    /\ pc = "returned"
    /\ call.search_params.kind = "other"
    /\ Len(similar) = 5
    /\ Len(articles) < 5

\* C25: in every result that retrieve_knowledge returns over a corpus of
\* unique article_ids, the article_ids of relevant_articles are pairwise
\* distinct, whatever the size of the corpus.
C25_DistinctArticleIds ==
    (pc = "returned" /\ result.kind = "KnowledgeRetrievalResult") =>
        \A i, j \in 1..Len(result.relevant_articles) :
            i # j => result.relevant_articles[i].article_id
                        # result.relevant_articles[j].article_id

\* the reply of the returned call parsed to a JSON value
C26_Parsed == llm_requests = 1 /\ CallHasText /\ ParseReply(CallText).ok

\* that value
C26_Value == DocValue(ParseReply(CallText).doc)

StageResult(stage) ==
    CASE stage = "analysis" -> pipeline.analysis
      [] stage = "retrieval" -> pipeline.knowledge
      [] stage = "status" -> pipeline.status
      [] stage = "synthesis" -> pipeline.response

\* the stage was invoked by the current process_ticket call
Invoked(stage) == \E i \in 1..Len(pipeline.invoked) : pipeline.invoked[i] = stage

\* C22: process_ticket invokes analysis, retrieval, status check and
\* synthesis in this order and each at most once; a stage is invoked only
\* after every earlier stage returned a value other than None; and after
\* a stage returned None no later stage and no evaluation is invoked
C22_StagesInOrder ==
    /\ Len(pipeline.invoked) <= Len(StageOrder)
    /\ \A i \in 1..Len(pipeline.invoked) :
          /\ pipeline.invoked[i] = StageOrder[i]
          /\ \A j \in 1..(i - 1) :
                StageResult(StageOrder[j]).kind \notin {"none", "None", "raised"}
    /\ pipeline.returned = "None" =>
          /\ Len(pipeline.invoked) \in 1..4
          /\ StageResult(StageOrder[Len(pipeline.invoked)]).kind = "None"

\* retrieval returned None: analysis and retrieval were invoked, nothing else
C22_Witness ==
    /\ pipeline.returned = "None"
    /\ pipeline.invoked = <<"analysis", "retrieval">>
    /\ pipeline.knowledge.kind = "None"

\* all four stages of the current call returned a value
AllStagesSucceeded ==
    /\ Len(pipeline.invoked) >= 4
    /\ \A j \in 1..4 :
          StageResult(StageOrder[j]).kind \notin {"none", "None", "raised"}

\* C23: whichever of the four stages fails, the ticket analysis included,
\* process_ticket returns None and does not raise; it returns the result
\* dictionary exactly when all four stages succeeded
C23_FailureReturnsNone ==
    pipeline.pc = "returned" =>
        /\ pipeline.returned \in {"None", "dict"}
        /\ pipeline.returned = "dict" <=> AllStagesSucceeded

\* C27: a fallback result of the retrieval does not end process_ticket,
\* which goes on to the status check and hands the fallback
\* recommendation to the synthesis; a None from the retrieval ends
\* process_ticket with None before the status check and the synthesis
C27_FallbackGoesOn ==
    Len(pipeline.invoked) >= 2 =>
        /\ pipeline.knowledge.kind = "KnowledgeRetrievalResult" =>
              /\ pipeline.pc = "status" \/ Invoked("status")
              /\ Invoked("synthesis") =>
                    pipeline.synthesis_knowledge = pipeline.knowledge
        /\ pipeline.knowledge.kind = "None" =>
              /\ pipeline.pc = "returned"
              /\ pipeline.returned = "None"
              /\ ~Invoked("status")
              /\ ~Invoked("synthesis")

\* the synthesis answered a ticket whose retrieval gave the fallback
C27_Witness ==
    /\ Invoked("synthesis")
    /\ pipeline.knowledge = FallbackResult
    /\ pipeline.synthesis_knowledge.recommended_solutions = <<FallbackText>>
    /\ pipeline.response.kind = "SynthesizedResponse"

\* C28: the escalation_needed of a synthesized response is true whenever
\* the ticket priority is critical or requires_human_escalation is true,
\* whatever the LLM replied, and false only when these two and the
\* reply's escalation_needed are all false
C28_EscalationForced ==
    (Invoked("synthesis") /\ pipeline.response.kind = "SynthesizedResponse") =>
        /\ (pipeline.analysis.priority = "critical"
             \/ pipeline.analysis.requires_human_escalation) =>
                pipeline.response.escalation_needed
        /\ ~pipeline.response.escalation_needed =>
              /\ pipeline.analysis.priority # "critical"
              /\ ~pipeline.analysis.requires_human_escalation
              /\ pipeline.reply.escalation_needed # "true"

\* a critical ticket is escalated although the LLM replied false
C28_Witness ==
    /\ Invoked("synthesis")
    /\ pipeline.response.kind = "SynthesizedResponse"
    /\ pipeline.analysis.priority = "critical"
    /\ ~pipeline.analysis.requires_human_escalation
    /\ pipeline.reply.escalation_needed = "false"
    /\ pipeline.response.escalation_needed

\* C29: in the mock data the overall status is degraded exactly when
\* error_codes is not empty, authentication is degraded and incident
\* INC-789 is listed exactly when E401 is among the codes, payment is
\* degraded exactly when E402 is; so a degraded service or an incident
\* comes with a degraded overall status
C29_MockDataConsistent ==
    (pipeline.use_mock_data /\ Invoked("status")) =>
        LET data == pipeline.api_data
            codes == pipeline.analysis.error_codes
        IN  /\ data.overall = "degraded" <=> codes # <<>>
            /\ data.services.authentication = "degraded" <=> Contains(codes, "E401")
            /\ Contains(data.incidents, "INC-789") <=> Contains(codes, "E401")
            /\ data.services.payment = "degraded" <=> Contains(codes, "E402")
            /\ data.services.api = "operational"
            /\ data.services.database = "operational"
            /\ (\/ data.services.authentication = "degraded"
                \/ data.services.payment = "degraded"
                \/ data.incidents # <<>>) => data.overall = "degraded"

\* mock data for a ticket whose only error code is neither E401 nor E402
C29_Witness ==
    /\ pipeline.use_mock_data
    /\ Invoked("status")
    /\ pipeline.analysis.error_codes = <<"E500">>
    /\ pipeline.api_data.overall = "degraded"
    /\ pipeline.api_data.incidents = <<>>

====
